---- MODULE Spec2Model ----
(***************************************************************************)
(* Site suitability decision engine of the DecisionSupport component:      *)
(* zone ingestion, restriction evaluation, nearest-supply ranking, the     *)
(* result cache and the session controller (selection, deferred            *)
(* evaluation, AI augmentation, teardown).                                 *)
(*                                                                         *)
(* Coordinates are integers counting 1e-5 degree (about 1.11 m); a vertex  *)
(* is <<lng, lat>> as in GeoJSON, a site is [lat, lng] as in L.LatLng.     *)
(* Time is in milliseconds.                                                *)
(***************************************************************************)
EXTENDS Integers, Sequences, FiniteSets, TLC

\* ------------------------------------------------------------------------
\* Bounds of the model
\* ------------------------------------------------------------------------
MaxClicks == 2
MaxLoads == 2
MaxTime == 2000

\* ------------------------------------------------------------------------
\* Program constants
\* ------------------------------------------------------------------------
ANALYSIS_DEBOUNCE == 500
batchSize == 50
maxDistance == 50000
SimplifyThreshold == 50
TickMs == 500
StartTime == 1000

NULL == [none |-> TRUE]

\* ------------------------------------------------------------------------
\* Arithmetic helpers
\* ------------------------------------------------------------------------
Abs(x) == IF x < 0 THEN -x ELSE x

Min2(a, b) == IF a <= b THEN a ELSE b

Max2(a, b) == IF a >= b THEN a ELSE b

RECURSIVE SqrtSearch(_, _, _)
SqrtSearch(n, lo, hi) ==
  IF lo >= hi THEN lo
  ELSE LET mid == (lo + hi + 1) \div 2
       IN IF mid * mid <= n THEN SqrtSearch(n, mid, hi)
                            ELSE SqrtSearch(n, lo, mid - 1)

\* floor of the square root
ISqrt(n) == SqrtSearch(n, 0, Min2(n, 46340))

\* Math.round of the square root
RoundSqrt(n) == LET s == ISqrt(n) IN IF n - s * s > s THEN s + 1 ELSE s

SeqMin(s) == CHOOSE m \in {s[i] : i \in DOMAIN s} : \A i \in DOMAIN s : m <= s[i]

SeqMax(s) == CHOOSE m \in {s[i] : i \in DOMAIN s} : \A i \in DOMAIN s : m >= s[i]

\* Array.prototype.filter on a sequence: the elements at the indices in
\* keep, in order, from index i on
RECURSIVE FilterIdx(_, _, _)
FilterIdx(s, keep, i) ==
  IF i > Len(s) THEN << >>
  ELSE (IF i \in keep THEN <<s[i]>> ELSE << >>) \o FilterIdx(s, keep, i + 1)

\* Number.prototype.toFixed(4) of a coordinate: the sign is kept even when
\* the magnitude rounds to zero ("-0.0000"), the magnitude is rounded to the
\* nearest 1e-4 degree
toFixed4(x) == <<x < 0, (Abs(x) + 5) \div 10>>

\* metres to coordinate units (1e-5 degree of latitude is 1.11 m)
MetersToUnits(m) == (m * 100) \div 111

UnitsToMeters(u) == (u * 111) \div 100

\* ------------------------------------------------------------------------
\* Geometry provider (turf): point in polygon, buffer, circle, distance
\* ------------------------------------------------------------------------
\* turf.booleanPointInPolygon on the outer ring: even-odd ray casting, a
\* point on the boundary counts as inside
OnSegment(p, a, b) ==
  /\ Min2(a[1], b[1]) <= p[1] /\ p[1] <= Max2(a[1], b[1])
  /\ Min2(a[2], b[2]) <= p[2] /\ p[2] <= Max2(a[2], b[2])
  /\ (b[1] - a[1]) * (p[2] - a[2]) = (b[2] - a[2]) * (p[1] - a[1])

Crosses(p, a, b) ==
  /\ (a[2] > p[2]) # (b[2] > p[2])
  /\ LET lhs == (p[1] - a[1]) * (b[2] - a[2])
         rhs == (b[1] - a[1]) * (p[2] - a[2])
     IN IF b[2] > a[2] THEN lhs < rhs ELSE lhs > rhs

booleanPointInPolygon(p, ring) ==
  IF Len(ring) < 2 THEN FALSE
  ELSE \/ \E i \in 1..(Len(ring) - 1) : OnSegment(p, ring[i], ring[i + 1])
       \/ Cardinality({i \in 1..(Len(ring) - 1) : Crosses(p, ring[i], ring[i + 1])}) % 2 = 1

Dist2(p, q) == (p[1] - q[1]) * (p[1] - q[1]) + (p[2] - q[2]) * (p[2] - q[2])

\* distance from p to the segment a-b is at most d; a point outside the
\* envelope of the segment grown by d is farther than d
NearSegment(p, a, b, d) ==
  /\ Min2(a[1], b[1]) - d <= p[1] /\ p[1] <= Max2(a[1], b[1]) + d
  /\ Min2(a[2], b[2]) - d <= p[2] /\ p[2] <= Max2(a[2], b[2]) + d
  /\ \/ Dist2(p, a) <= d * d
     \/ Dist2(p, b) <= d * d
     \/ LET len2 == Dist2(a, b)
            dot == (p[1] - a[1]) * (b[1] - a[1]) + (p[2] - a[2]) * (b[2] - a[2])
            cross == (b[1] - a[1]) * (p[2] - a[2]) - (b[2] - a[2]) * (p[1] - a[1])
        IN /\ len2 > 0
           /\ 0 <= dot /\ dot <= len2
           /\ Abs(cross) <= d * ISqrt(len2)

\* turf.polygon(coordinates) throws unless the outer ring has at least 4
\* positions and is closed
turfPolygonOk(coordinates) ==
  /\ Len(coordinates) > 0
  /\ Len(coordinates[1]) >= 4
  /\ coordinates[1][1] = coordinates[1][Len(coordinates[1])]

\* the point lies in turf.buffer(polygon, d): inside the polygon or within
\* d (coordinate units) of its outline
InBuffer(p, ring, d) ==
  \/ booleanPointInPolygon(p, ring)
  \/ \E i \in 1..(Len(ring) - 1) : NearSegment(p, ring[i], ring[i + 1], d)

\* turf.circle(point, 0.2 km, steps 8): a closed ring of 8 vertices at
\* 200 m (180 units) around the point
circleRing(c) ==
  LET r == MetersToUnits(200)
      g == (r * 707) \div 1000
  IN << <<c[1], c[2] + r>>, <<c[1] - g, c[2] + g>>, <<c[1] - r, c[2]>>,
        <<c[1] - g, c[2] - g>>, <<c[1], c[2] - r>>, <<c[1] + g, c[2] - g>>,
        <<c[1] + r, c[2]>>, <<c[1] + g, c[2] + g>>, <<c[1], c[2] + r>> >>

\* Math.round(turf.distance * 1000): metres between the site and a supply
\* location; a location more than maxDistance away along one axis is
\* reported as maxDistance + 1 (it is beyond the radius whatever its exact
\* distance)
RoundDistance(site, lat, lng) ==
  LET dx == Abs(site.lng - lng)
      dy == Abs(site.lat - lat)
      k == IF Max2(dx, dy) > 32000 THEN 2 ELSE 1
  IN IF Max2(dx, dy) > MetersToUnits(maxDistance) THEN maxDistance + 1
     ELSE UnitsToMeters(k * RoundSqrt((dx \div k) * (dx \div k) + (dy \div k) * (dy \div k)))

\* ------------------------------------------------------------------------
\* Zone ingestion and classification
\* ------------------------------------------------------------------------
\* A feature is [isNull, name, tags, gtype, coords, lineBufferFails]:
\*   isNull  the array element is JSON null;
\*   name    properties.name, "" when absent;
\*   tags    the other properties, a set of <<key, value>>;
\*   gtype   geometry.type, "None" when the geometry is missing;
\*   lineBufferFails  turf.buffer throws for this LineString.

\* the keywords of determineZoneType that the lower-cased text contains
TextWords(text) ==
  CASE text = "Lake Naivasha" -> {"lake"}
    [] text = "Nairobi National Park" -> {"national park"}
    [] text = "Jomo Kenyatta International Airport" -> {"airport"}
    [] text = "Nairobi-Mombasa Highway" -> {"highway"}
    [] text = "Wilson Airport Forest" -> {"airport", "forest"}
    [] text = "Karura Forest" -> {"forest"}
    [] text = "Athi River Road" -> {"river", "road"}
    [] text = "Thika Road" -> {"road"}
    [] text = "Water Body Gauge" -> {"water"}
    [] text = "aeroway" -> {"aeroway"}
    [] text = "highway" -> {"highway"}
    [] text = "railway" -> {"railway"}
    [] text = "natural=water" -> {"natural=water", "water"}
    [] text = "water" -> {"water"}
    [] OTHER -> {}

\* name.includes(kw) on the lower-cased name
NameIncludes(f, kw) == kw \in TextWords(f.name)

\* JSON.stringify(feature.properties).toLowerCase().includes(kw): the text
\* holds the name and every key and value of the other properties
PropsInclude(f, kw) ==
  \/ kw \in TextWords(f.name)
  \/ \E t \in f.tags : kw \in TextWords(t[1]) \/ kw \in TextWords(t[2])

\* feature.properties[key], "" when absent
Prop(f, key) == IF \E t \in f.tags : t[1] = key
                THEN (CHOOSE t \in f.tags : t[1] = key)[2] ELSE ""

determineZoneType(f) ==
  IF NameIncludes(f, "airport") \/ NameIncludes(f, "aerodrome") \/ PropsInclude(f, "aeroway")
    THEN "Airport"
  ELSE IF \E kw \in {"national park", "reserve", "protected", "conservancy", "wildlife", "forest"} :
            NameIncludes(f, kw)
    THEN "Protected Area"
  ELSE IF \/ \E kw \in {"lake", "river", "water", "reservoir", "wetland", "swamp", "dam",
                        "stream", "creek", "pond", "lagoon"} : NameIncludes(f, kw)
          \/ PropsInclude(f, "natural=water")
    THEN "Water Body"
  ELSE IF \/ \E kw \in {"highway", "road", "street", "avenue", "railway", "railroad",
                        "rail track", "motorway", "expressway", "freeway"} : NameIncludes(f, kw)
          \/ PropsInclude(f, "highway") \/ PropsInclude(f, "railway")
    THEN "Transportation Corridor"
  ELSE IF Prop(f, "boundary") \in {"national_park", "protected_area"}
    THEN "Protected Area"
  ELSE IF Prop(f, "aeroway") # ""
    THEN "Airport"
  ELSE IF Prop(f, "natural") = "water"
    THEN "Water Body"
  ELSE IF Prop(f, "highway") # "" \/ Prop(f, "railway") # ""
    THEN "Transportation Corridor"
  ELSE "Restricted Area"

getBufferDistance(zoneType) ==
  CASE zoneType = "Protected Area" -> 2000
    [] zoneType = "Airport" -> 3000
    [] zoneType = "Water Body" -> 500
    [] zoneType = "Transportation Corridor" -> 200
    [] OTHER -> 1000

\* rings over 50 vertices keep the vertices at index 0, 3, 6, ...
simplifyPolygon(coordinates) ==
  [r \in DOMAIN coordinates |->
     IF Len(coordinates[r]) > SimplifyThreshold
     THEN FilterIdx(coordinates[r],
                    {i \in DOMAIN coordinates[r] : (i - 1) % 3 = 0}, 1)
     ELSE coordinates[r]]

calculateBounds(ring) ==
  << SeqMin([i \in DOMAIN ring |-> ring[i][1]]), SeqMin([i \in DOMAIN ring |-> ring[i][2]]),
     SeqMax([i \in DOMAIN ring |-> ring[i][1]]), SeqMax([i \in DOMAIN ring |-> ring[i][2]]) >>

\* a rectangle of half-width off around one coordinate: 5 positions
OffsetBox(c, off) ==
  << <<c[1] - off, c[2] - off>>, <<c[1] + off, c[2] - off>>, <<c[1] + off, c[2] + off>>,
     <<c[1] - off, c[2] + off>>, <<c[1] - off, c[2] - off>> >>

\* bufferDistance is in kilometres times 1000 (metres); near the equator the
\* longitude offset equals the latitude offset to within one unit
createSimpleLineBuffer(coordinates, bufferMeters) ==
  IF Len(coordinates) < 2 THEN <<coordinates>>
  ELSE << OffsetBox(coordinates[1], MetersToUnits(bufferMeters))
          \o OffsetBox(coordinates[Len(coordinates)], MetersToUnits(bufferMeters)) >>

\* turf.buffer of a line: the outline around the line, here the envelope of
\* its positions grown by the distance
turfLineBuffer(coordinates, bufferMeters) ==
  LET b == calculateBounds(coordinates)
      d == MetersToUnits(bufferMeters)
  IN << << <<b[1] - d, b[2] - d>>, <<b[3] + d, b[2] - d>>, <<b[3] + d, b[4] + d>>,
           <<b[1] - d, b[4] + d>>, <<b[1] - d, b[2] - d>> >> >>

lineStringToPolygon(f, bufferMeters) ==
  IF Len(f.coords) < 2 \/ f.lineBufferFails
  THEN createSimpleLineBuffer(f.coords, bufferMeters)
  ELSE turfLineBuffer(f.coords, bufferMeters)

\* the body of the loop of processFeatureBatch for one feature, at position
\* index of the dataset: a zone, a skip, or an exception that leaves the loop
processFeature(f, index) ==
  IF f.isNull THEN [kind |-> "throw"]
  ELSE IF f.name = "" THEN [kind |-> "skip"]
  ELSE IF f.gtype \notin {"Polygon", "MultiPolygon", "LineString", "Point"}
    THEN [kind |-> "skip"]
  ELSE LET zoneType == determineZoneType(f)
           bufferDistance == getBufferDistance(zoneType)
           coordinates ==
             CASE f.gtype = "Polygon" -> simplifyPolygon(f.coords)
               [] f.gtype = "MultiPolygon" -> simplifyPolygon(f.coords[1])
               [] f.gtype = "LineString" -> lineStringToPolygon(f, bufferDistance)
               [] f.gtype = "Point" -> <<circleRing(f.coords)>>
       IN IF Len(coordinates) > 0 /\ Len(coordinates[1]) > 0
          THEN [kind |-> "zone",
                zone |-> [id |-> <<"geojson", f.name, index>>,
                          name |-> f.name,
                          type |-> zoneType,
                          coordinates |-> coordinates,
                          bufferDistance |-> bufferDistance,
                          source |-> "geojson",
                          bounds |-> calculateBounds(coordinates[1])]]
          ELSE [kind |-> "skip"]

\* processFeatureBatch(features, startIndex): the zones of the batch, or
\* threw when an exception left the loop (the results so far are lost)
RECURSIVE BatchLoop(_, _, _, _)
BatchLoop(features, startIndex, i, results) ==
  IF i > Len(features) THEN [threw |-> FALSE, zones |-> results]
  ELSE LET r == processFeature(features[i], startIndex + i - 1)
       IN CASE r.kind = "throw" -> [threw |-> TRUE, zones |-> << >>]
            [] r.kind = "skip" -> BatchLoop(features, startIndex, i + 1, results)
            [] r.kind = "zone" -> BatchLoop(features, startIndex, i + 1, Append(results, r.zone))

processFeatureBatch(features, startIndex) == BatchLoop(features, startIndex, 1, << >>)

\* the built-in fallback list; its zones carry no bounds
ManualZone(n, name, type, ring, buffer) ==
  [id |-> <<"manual", "", n>>, name |-> name, type |-> type, coordinates |-> <<ring>>,
   bufferDistance |-> buffer, source |-> "manual", bounds |-> << >>]

loadManualRestrictedZones ==
  << ManualZone(1, "Nairobi National Park", "Protected Area",
       << <<3675000, -140000>>, <<3695000, -140000>>, <<3695000, -120000>>,
          <<3675000, -120000>>, <<3675000, -140000>> >>, 2000),
     ManualZone(2, "Jomo Kenyatta International Airport", "Airport",
       << <<3692000, -133000>>, <<3698000, -133000>>, <<3698000, -130000>>,
          <<3692000, -130000>>, <<3692000, -133000>> >>, 3000),
     ManualZone(3, "Lake Naivasha", "Water Body",
       << <<3635000, -70000>>, <<3645000, -70000>>, <<3645000, -75000>>,
          <<3635000, -75000>>, <<3635000, -70000>> >>, 500),
     ManualZone(4, "Nairobi-Mombasa Highway", "Transportation Corridor",
       << <<3682000, -130000>>, <<3700000, -135000>>, <<3720000, -140000>>,
          <<3740000, -145000>>, <<3682000, -130000>> >>, 200) >>

\* ------------------------------------------------------------------------
\* Restriction evaluator
\* ------------------------------------------------------------------------
\* A finding stands for the text pushed by checkRestrictionsOptimized: the
\* "inside" text holds the zone's name and type, the "buffer" text holds the
\* buffer distance and the name (type "" and buffer -1 mark the absent part)
InsideFinding(zone) == [sev |-> "inside", name |-> zone.name, type |-> zone.type, buffer |-> -1]

BufferFinding(zone) == [sev |-> "buffer", name |-> zone.name, type |-> "", buffer |-> zone.bufferDistance]

OutsideBounds(p, bounds) ==
  p[1] < bounds[1] \/ p[1] > bounds[3] \/ p[2] < bounds[2] \/ p[2] > bounds[4]

\* an evaluator that takes 1000 m for a missing (falsy) buffer distance
ZoneFindingsDefaultBuffer(p, zone, failing) ==
  IF zone.bounds # << >> /\ OutsideBounds(p, zone.bounds) THEN << >>
  ELSE IF ~turfPolygonOk(zone.coordinates) THEN << >>
  ELSE IF booleanPointInPolygon(p, zone.coordinates[1]) THEN <<InsideFinding(zone)>>
  ELSE IF zone.id \in failing THEN << >>
  ELSE IF InBuffer(p, zone.coordinates[1],
                   MetersToUnits(IF zone.bufferDistance = 0 THEN 1000
                                 ELSE zone.bufferDistance))
    THEN <<BufferFinding(zone)>>
  ELSE << >>

\* an evaluator that tests the band around the outline first
ZoneFindingsBandFirst(p, zone, failing) ==
  IF zone.bounds # << >> /\ OutsideBounds(p, zone.bounds) THEN << >>
  ELSE IF ~turfPolygonOk(zone.coordinates) THEN << >>
  ELSE IF /\ zone.id \notin failing
          /\ \E i \in 1..(Len(zone.coordinates[1]) - 1) :
               NearSegment(p, zone.coordinates[1][i], zone.coordinates[1][i + 1],
                           MetersToUnits(zone.bufferDistance))
    THEN <<BufferFinding(zone)>>
  ELSE IF booleanPointInPolygon(p, zone.coordinates[1]) THEN <<InsideFinding(zone)>>
  ELSE << >>

\* an evaluator that goes on to the buffer test after an inside finding
ZoneFindingsBodyAndBand(p, zone, failing) ==
  IF zone.bounds # << >> /\ OutsideBounds(p, zone.bounds) THEN << >>
  ELSE IF ~turfPolygonOk(zone.coordinates) THEN << >>
  ELSE IF booleanPointInPolygon(p, zone.coordinates[1])
    THEN IF zone.id \in failing THEN <<InsideFinding(zone)>>
         ELSE <<InsideFinding(zone), BufferFinding(zone)>>
  ELSE IF zone.id \in failing THEN << >>
  ELSE IF InBuffer(p, zone.coordinates[1], MetersToUnits(zone.bufferDistance))
    THEN <<BufferFinding(zone)>>
  ELSE << >>

\* an evaluator whose buffer failure takes the body test with it
ZoneFindingsFailureFirst(p, zone, failing) ==
  IF zone.bounds # << >> /\ OutsideBounds(p, zone.bounds) THEN << >>
  ELSE IF ~turfPolygonOk(zone.coordinates) THEN << >>
  ELSE IF zone.id \in failing THEN << >>
  ELSE IF booleanPointInPolygon(p, zone.coordinates[1]) THEN <<InsideFinding(zone)>>
  ELSE IF InBuffer(p, zone.coordinates[1], MetersToUnits(zone.bufferDistance))
    THEN <<BufferFinding(zone)>>
  ELSE << >>

\* the findings one zone contributes; failing is the set of zone ids for
\* which turf.buffer throws
ZoneFindings(p, zone, failing) ==
  IF zone.bounds # << >> /\ OutsideBounds(p, zone.bounds) THEN << >>
  ELSE IF ~turfPolygonOk(zone.coordinates) THEN << >>
  ELSE IF booleanPointInPolygon(p, zone.coordinates[1]) THEN <<InsideFinding(zone)>>
  ELSE IF zone.id \in failing THEN << >>
  ELSE IF InBuffer(p, zone.coordinates[1], MetersToUnits(zone.bufferDistance))
    THEN <<BufferFinding(zone)>>
  ELSE << >>

RECURSIVE RestrictionLoop(_, _, _, _)
RestrictionLoop(p, zones, failing, i) ==
  IF i > Len(zones) THEN << >>
  ELSE ZoneFindings(p, zones[i], failing) \o RestrictionLoop(p, zones, failing, i + 1)

checkRestrictionsOptimized(site, zones, failing) ==
  RestrictionLoop(<<site.lng, site.lat>>, zones, failing, 1)

\* ------------------------------------------------------------------------
\* Nearest-supply finder
\* ------------------------------------------------------------------------
\* a supply site (Material) is [id, name, type, lat, lng], type a set
Proximity(site, material) ==
  LET distance == RoundDistance(site, material.lat, material.lng)
  IN [material |-> material, distance |-> distance,
      travelTime |-> (distance * 3 + 1000) \div 2000]

\* Array.prototype.sort by distance: stable insertion
RECURSIVE InsertByDistance(_, _)
InsertByDistance(sorted, item) ==
  IF sorted = << >> THEN <<item>>
  ELSE IF item.distance < sorted[1].distance THEN <<item>> \o sorted
  ELSE <<sorted[1]>> \o InsertByDistance(Tail(sorted), item)

RECURSIVE SortByDistance(_, _)
SortByDistance(items, i) ==
  IF i = 0 THEN << >>
  ELSE InsertByDistance(SortByDistance(items, i - 1), items[i])

\* a finder that truncates before it sorts
findNearestTruncatingFirst(site, mats) ==
  LET mapped == [i \in DOMAIN mats |-> Proximity(site, mats[i])]
      kept == FilterIdx(mapped, {i \in DOMAIN mapped : mapped[i].distance <= maxDistance}, 1)
      cut == SubSeq(kept, 1, Min2(5, Len(kept)))
  IN SortByDistance(cut, Len(cut))

findNearestMaterialsOptimized(site, mats) ==
  LET mapped == [i \in DOMAIN mats |-> Proximity(site, mats[i])]
      kept == FilterIdx(mapped, {i \in DOMAIN mapped : mapped[i].distance <= maxDistance}, 1)
      sorted == SortByDistance(kept, Len(kept))
  IN SubSeq(sorted, 1, Min2(5, Len(sorted)))

\* ------------------------------------------------------------------------
\* Recommendation synthesizer
\* ------------------------------------------------------------------------
\* the case-sensitive key phrases that a zone name contains
NamePhrases(name) ==
  CASE name = "Lake Naivasha" -> {"Lake"}
    [] name = "Nairobi National Park" -> {"National Park"}
    [] name = "Jomo Kenyatta International Airport" -> {"Airport"}
    [] name = "Wilson Airport Forest" -> {"Airport"}
    [] name = "Athi River Road" -> {"River"}
    [] name = "Water Body Gauge" -> {"Water Body"}
    [] OTHER -> {}

TypePhrases(type) ==
  CASE type = "Protected Area" -> {"Protected Area"}
    [] type = "Water Body" -> {"Water Body"}
    [] type = "Airport" -> {"Airport"}
    [] type = "Transportation Corridor" -> {"Transportation Corridor", "Transportation"}
    [] OTHER -> {}

\* restriction.includes(phrase) on the text of a finding
Includes(r, phrase) == phrase \in NamePhrases(r.name) \/ phrase \in TypePhrases(r.type)

SomeIncludes(restrictions, phrase) ==
  \E i \in DOMAIN restrictions : Includes(restrictions[i], phrase)

Msg(text) == [msg |-> text, name |-> "", distance |-> -1]

generateRecommendations(restrictions, nearestMaterials) ==
  LET materialTypes == UNION {nearestMaterials[i].material.type : i \in DOMAIN nearestMaterials}
  IN (IF Len(restrictions) > 0
      THEN <<Msg("restrictions-consider-alternative"), Msg("required-eia-and-permits")>>
      ELSE <<Msg("regulatory-compliant"), Msg("standard-approval-process")>>)
     \o (IF Len(nearestMaterials) > 0
         THEN (IF nearestMaterials[1].distance < 2000 THEN <<Msg("excellent-accessibility")>>
               ELSE IF nearestMaterials[1].distance < 5000 THEN <<Msg("good-availability")>>
               ELSE <<Msg("consider-transport-costs")>>)
              \o <<[msg |-> "nearest-source", name |-> nearestMaterials[1].material.name,
                    distance |-> nearestMaterials[1].distance]>>
              \o (IF "Sand" \in materialTypes THEN <<Msg("sand-water-requirements")>> ELSE << >>)
              \o (IF "Blocks" \in materialTypes THEN <<Msg("blocks-foundation")>> ELSE << >>)
              \o (IF "Ballast" \in materialTypes THEN <<Msg("ballast-roads")>> ELSE << >>)
         ELSE <<Msg("no-sources-nearby"), Msg("expand-radius")>>)
     \o (IF SomeIncludes(restrictions, "Water Body")
         THEN <<Msg("water-body-nearby"), Msg("required-flood-assessment")>> ELSE << >>)
     \o (IF SomeIncludes(restrictions, "Protected Area")
         THEN <<Msg("near-protected-area"), Msg("required-wildlife-assessment")>> ELSE << >>)
     \o (IF SomeIncludes(restrictions, "Airport")
         THEN <<Msg("near-airport"), Msg("required-aviation-clearance")>> ELSE << >>)
     \o (IF SomeIncludes(restrictions, "Transportation Corridor")
         THEN <<Msg("near-transport-corridor"), Msg("required-traffic-management")>> ELSE << >>)

\* the base report built by analyzeSite on a cache miss
BaseReport(site, zones, mats, failing) ==
  LET restrictions == checkRestrictionsOptimized(site, zones, failing)
      nearestMaterials == findNearestMaterialsOptimized(site, mats)
  IN [isValid |-> Len(restrictions) = 0,
      restrictions |-> restrictions,
      nearestMaterials |-> nearestMaterials,
      recommendations |-> generateRecommendations(restrictions, nearestMaterials)]

\* the cache key of analyzeSite: both coordinates formatted with toFixed(4)
cacheKey(site) == <<toFixed4(site.lat), toFixed4(site.lng)>>

\* ------------------------------------------------------------------------
\* Supply-site input
\* ------------------------------------------------------------------------
\* an API item is [id, material, types, latitude, longitude]; a coordinate
\* is [ok, v]: ok is FALSE when Number(...) of the field is NaN
NumberOr(coord, default) == IF coord.ok /\ coord.v # 0 THEN coord.v ELSE default

transformApiResponse(apiData) ==
  [i \in DOMAIN apiData |->
     [id |-> apiData[i].id,
      name |-> apiData[i].material,
      type |-> apiData[i].types,
      lat |-> NumberOr(apiData[i].latitude, -129210),
      lng |-> NumberOr(apiData[i].longitude, 3682190)]]

\* ------------------------------------------------------------------------
\* AI augmentation collaborator (CohereAIService)
\* ------------------------------------------------------------------------
\* sanitizeCoordinate(coord, 'lng')
sanitizeLng(coord) == Max2(3300000, Min2(4200000, IF coord = 0 THEN 3682190 ELSE coord))

calculateAlternativeLocation(original, distance, reason) ==
  [ok |-> TRUE, lat |-> original.lat,
   lng |-> sanitizeLng(original.lng + MetersToUnits(distance)),
   reason |-> reason, distance |-> distance]

\* the recommendation carries context, the site of the request it answers
ruleBasedFallback(context) ==
  LET restrictions == context.restrictions
      hasProtectedArea == SomeIncludes(restrictions, "Protected Area")
                            \/ SomeIncludes(restrictions, "National Park")
      hasWaterBody == SomeIncludes(restrictions, "Water Body")
                        \/ SomeIncludes(restrictions, "Lake")
                        \/ SomeIncludes(restrictions, "River")
      hasAirport == SomeIncludes(restrictions, "Airport")
      hasCloseMaterials == /\ Len(context.nearestMaterials) > 0
                           /\ context.nearestMaterials[1].distance < 5000
      base == [origin |-> "fallback", context |-> context.selectedSite]
  IN IF hasProtectedArea
       THEN base @@ [recommendation |-> "relocate-2km", riskLevel |-> "high",
                     alternativeLocation |->
                       calculateAlternativeLocation(context.selectedSite, 2000, "away-from-protected-area")]
     ELSE IF hasWaterBody
       THEN base @@ [recommendation |-> "flood-risk-assessment", riskLevel |-> "medium",
                     alternativeLocation |->
                       calculateAlternativeLocation(context.selectedSite, 500, "higher-ground")]
     ELSE IF hasAirport
       THEN base @@ [recommendation |-> "kcaa-clearance", riskLevel |-> "medium",
                     alternativeLocation |-> NULL]
     ELSE IF ~hasCloseMaterials
       THEN base @@ [recommendation |-> "limited-material-access", riskLevel |-> "medium",
                     alternativeLocation |-> NULL]
     ELSE base @@ [recommendation |-> "site-suitable", riskLevel |-> "low",
                   alternativeLocation |-> NULL]

\* what cohereAIService.generateRecommendations resolves to, by the outcome
\* of the request: a parsed answer without or with an alternative location,
\* an answer whose alternative latitude is not a number (validateAIResponse
\* lets NaN through), or the fallback after any failure
AIOutcomes == {"answer", "answerAlt", "answerNaN", "fallback"}

serviceRecommendation(context, outcome) ==
  LET base == [origin |-> "ai", context |-> context.selectedSite,
               recommendation |-> "ai-advice", riskLevel |-> "medium"]
  IN CASE outcome = "answer" -> base @@ [alternativeLocation |-> NULL]
       [] outcome = "answerAlt" ->
            base @@ [alternativeLocation |->
                       [ok |-> TRUE, lat |-> context.selectedSite.lat,
                        lng |-> sanitizeLng(context.selectedSite.lng + 1000),
                        reason |-> "ai-reason", distance |-> 1000]]
       [] outcome = "answerNaN" ->
            base @@ [alternativeLocation |->
                       [ok |-> FALSE, lat |-> 0,
                        lng |-> sanitizeLng(context.selectedSite.lng),
                        reason |-> "ai-reason", distance |-> 1000]]
       [] outcome = "fallback" -> ruleBasedFallback(context)

\* fallbackParse(text): the answer built from a text without a JSON object;
\* phrases are the key phrases the lower-cased text contains
fallbackParse(context, phrases) ==
  [origin |-> "ai", context |-> context.selectedSite,
   recommendation |-> "professional-assessment",
   riskLevel |-> IF "low risk" \in phrases THEN "low"
                 ELSE IF "high risk" \in phrases THEN "high" ELSE "medium",
   alternativeLocation |-> NULL]

\* what the HTTP request of generateRecommendations comes back with:
\*   error    the request fails (catchError rethrows)
\*   noText   a response without message.content[0].text and without text
\*   badJson  a text whose braces do not hold valid JSON (JSON.parse throws)
\*   noJson   a text without braces, holding the given phrases
\*   json     a text holding a JSON object
AIResponse(kind, phrases) == [kind |-> kind, phrases |-> phrases]

AIResponses ==
  {AIResponse(kind, {}) : kind \in {"error", "noText", "badJson", "json"}}
    \cup {AIResponse("noJson", phrases) : phrases \in SUBSET {"high risk", "low risk"}}

\* CohereAIService.generateRecommendations(context), by the response
cohereGenerateRecommendations(context, response) ==
  IF response.kind \in {"error", "noText", "badJson"} THEN ruleBasedFallback(context)
  ELSE IF response.kind = "noJson" THEN fallbackParse(context, response.phrases)
  ELSE serviceRecommendation(context, "answer")

\* ------------------------------------------------------------------------
\* Inputs: candidate sites, zone datasets, supply responses
\* ------------------------------------------------------------------------
Site(lat, lng) == [lat |-> lat, lng |-> lng]

\* SiteA and SiteB share one cache cell; SiteC lies far from every zone
SiteA == Site(-71500, 3640500)

SiteB == Site(-71503, 3640502)

SiteC == Site(-60000, 3640500)

Sites == {SiteA, SiteB, SiteC}

NoSite == Site(0, 0)

Feat(name, tags, gtype, coords) ==
  [isNull |-> FALSE, name |-> name, tags |-> tags, gtype |-> gtype, coords |-> coords,
   lineBufferFails |-> FALSE]

NullFeature == [Feat("", {}, "None", << >>) EXCEPT !.isNull = TRUE]

NamelessFeature == Feat("", {}, "Polygon", << >>)

LakeFeature ==
  Feat("Lake Naivasha", {}, "Polygon",
       << << <<3640000, -72000>>, <<3641000, -72000>>, <<3641000, -71000>>,
             <<3640000, -71000>>, <<3640000, -72000>> >> >>)

ForestFeature ==
  Feat("Karura Forest", {}, "Polygon",
       << << <<3640400, -71600>>, <<3640600, -71600>>, <<3640600, -71400>>,
             <<3640400, -71400>>, <<3640400, -71600>> >> >>)

\* the feature collections a source can serve, by name:
\*   small     one named polygon and one feature without name
\*   big       51 features (two batches): a zone in each batch
\*   nameless  one feature, without name
\*   nulltail  51 features: a zone in the first batch, a null element in the second
DatasetNames == {"small", "big", "nameless", "nulltail"}

Dataset(ds) ==
  CASE ds = "small" -> <<LakeFeature, NamelessFeature>>
    [] ds = "big" -> [i \in 1..(batchSize + 1) |->
                        IF i = 1 THEN LakeFeature
                        ELSE IF i = batchSize + 1 THEN ForestFeature ELSE NamelessFeature]
    [] ds = "nameless" -> <<NamelessFeature>>
    [] ds = "nulltail" -> [i \in 1..(batchSize + 1) |->
                             IF i = 1 THEN LakeFeature
                             ELSE IF i = batchSize + 1 THEN NullFeature ELSE NamelessFeature]

\* what a candidate path answers: the fetch or response.json() rejects, the
\* response is not ok, the collection has no features, or a collection
FetchOutcomes == {"error", "notok", "empty"} \cup DatasetNames

possiblePaths == <<"/geojson.geojson", "/assets/geojson/restricted-areas.geojson",
                   "geojson.geojson", "./geojson.geojson">>

Num(v) == [ok |-> TRUE, v |-> v]

NaN == [ok |-> FALSE, v |-> 0]

ApiResponses ==
  { << >>,
    << [id |-> "m1", material |-> "River Sand", types |-> {"Sand"},
        latitude |-> Num(-71000), longitude |-> Num(3641000)],
       [id |-> "m2", material |-> "Ballast", types |-> {"Ballast"},
        latitude |-> NaN, longitude |-> Num(3682000)] >> }

\* what the local material service delivers; << >> also stands for its failure
ServiceResponses ==
  { << >>,
    << [id |-> "s1", name |-> "Blocks", type |-> {"Blocks"}, lat |-> -70000, lng |-> 3640000] >> }

\* ------------------------------------------------------------------------
\* State
\* ------------------------------------------------------------------------
VARIABLES
  phase,                  \* "new", "inited", "ready", "destroyed": lifecycle hooks run so far
  now,                    \* Date.now()
  lastAnalysisTime,
  map,                    \* this.map is defined
  siteMarker,
  alternativeMarker,      \* the marker the component references, or NULL
  mapAltMarkers,          \* the alternative markers that are layers of the map
  selectedSite,
  analysisResult,
  aiRecommendation,
  aiError,
  isAnalyzing,
  isAIAnalyzing,
  isLoadingRestrictions,
  isLoading,
  analysisCache,          \* cache key -> report
  restrictedZonesData,
  materials,
  timers,                 \* pending setTimeout callbacks, in creation order
  aiTasks,                \* requests to the AI collaborator in flight
  loads,                  \* the calls of loadRestrictedZones
  materialsRequest,       \* loadMaterials: "none", "api" or "service" in flight, "done"
  clickLog,               \* history: the selections, [site, time]
  evaluated,              \* history: the selections whose deferred evaluation has run
  probe                   \* one call of an engine function: its arguments and result

vars == <<phase, now, lastAnalysisTime, map, siteMarker, alternativeMarker, mapAltMarkers,
          selectedSite, analysisResult, aiRecommendation, aiError, isAnalyzing, isAIAnalyzing,
          isLoadingRestrictions, isLoading, analysisCache, restrictedZonesData, materials,
          timers, aiTasks, loads, materialsRequest, clickLog, evaluated, probe>>

mapVars == <<map, siteMarker, alternativeMarker, mapAltMarkers>>

signalVars == <<selectedSite, analysisResult, aiRecommendation, aiError, isAnalyzing, isAIAnalyzing>>

zoneVars == <<restrictedZonesData, loads, isLoadingRestrictions>>

supplyVars == <<materials, materialsRequest, isLoading>>

historyVars == <<clickLog, evaluated>>

EmptyCache == [k \in {} |-> NULL]

\* no engine function has been called on its own
NoCall == [op |-> "none"]

Timer(kind, due, site, click, load) ==
  [kind |-> kind, due |-> due, site |-> site, click |-> click, load |-> load]

\* a timer may run when it is due and no other pending timer is due earlier
\* or was created earlier with the same due time
Runnable(i) ==
  /\ timers[i].due <= now
  /\ \A j \in DOMAIN timers :
       j # i => \/ timers[j].due > timers[i].due
                \/ (timers[j].due = timers[i].due /\ j > i)

Without(seq, i) == SubSeq(seq, 1, i - 1) \o SubSeq(seq, i + 1, Len(seq))

Init ==
  /\ phase = "new"
  /\ now = StartTime
  /\ lastAnalysisTime = 0
  /\ map = FALSE
  /\ siteMarker = NULL
  /\ alternativeMarker = NULL
  /\ mapAltMarkers = {}
  /\ selectedSite = NULL
  /\ analysisResult = NULL
  /\ aiRecommendation = NULL
  /\ aiError = NULL
  /\ isAnalyzing = FALSE
  /\ isAIAnalyzing = FALSE
  /\ isLoadingRestrictions = FALSE
  /\ isLoading = FALSE
  /\ analysisCache = EmptyCache
  /\ restrictedZonesData = << >>
  /\ materials = << >>
  /\ timers = << >>
  /\ aiTasks = {}
  /\ loads = << >>
  /\ materialsRequest = "none"
  /\ clickLog = << >>
  /\ evaluated = {}
  /\ probe = NoCall

\* ------------------------------------------------------------------------
\* Lifecycle
\* ------------------------------------------------------------------------
\* a call of loadRestrictedZones: pc is "fetch" (awaiting the response of
\* possiblePaths[path]), "yield" (between two batches) or "done"; ds names
\* the collection being ingested ("manual" once the fallback is installed);
\* tried is history, the answer of each path so far ("fail" or a dataset)
NewLoad == [pc |-> "fetch", path |-> 1, ds |-> "", batchIndex |-> 0, tried |-> << >>]

\* ngOnInit: loadRestrictedZones() runs up to its first fetch, loadMaterials()
\* sends the supply request
ngOnInit ==
  /\ phase = "new"
  /\ phase' = "inited"
  /\ isLoadingRestrictions' = TRUE
  /\ loads' = Append(loads, NewLoad)
  /\ isLoading' = TRUE
  /\ materialsRequest' = "api"
  /\ UNCHANGED <<probe, now, lastAnalysisTime, mapVars, signalVars, analysisCache,
                 restrictedZonesData, materials, timers, aiTasks, historyVars>>

\* ngAfterViewInit: initMap() creates the map, registers the click handler
\* and schedules addRestrictedZones after 1000 ms
ngAfterViewInit ==
  /\ phase = "inited"
  /\ phase' = "ready"
  /\ map' = TRUE
  /\ timers' = Append(timers, Timer("render", now + 1000, NoSite, 0, 0))
  /\ UNCHANGED <<probe, now, lastAnalysisTime, siteMarker, alternativeMarker, mapAltMarkers,
                 signalVars, analysisCache, zoneVars, supplyVars, aiTasks, historyVars>>

\* ngOnDestroy: cleanup()
ngOnDestroy ==
  /\ phase = "ready"
  /\ phase' = "destroyed"
  /\ map' = FALSE
  /\ mapAltMarkers' = {}
  /\ analysisCache' = EmptyCache
  /\ siteMarker' = NULL
  /\ alternativeMarker' = NULL
  /\ UNCHANGED <<probe, now, lastAnalysisTime, signalVars, zoneVars, supplyVars, timers, aiTasks,
                 historyVars>>

\* construction, ngOnInit and ngAfterViewInit run in one task (the creation
\* of the component and its first change detection): no time passes and no
\* callback runs until both hooks have returned
Started == phase \in {"ready", "destroyed"}

\* the clock advances
Tick ==
  /\ Started
  /\ now + TickMs <= MaxTime
  /\ now' = now + TickMs
  /\ UNCHANGED <<probe, phase, lastAnalysisTime, mapVars, signalVars, analysisCache, zoneVars,
                 supplyVars, timers, aiTasks, historyVars>>

\* ------------------------------------------------------------------------
\* Zone loading
\* ------------------------------------------------------------------------
\* a later call of the public loadRestrictedZones()
loadRestrictedZones ==
  /\ phase = "ready"
  /\ Len(loads) < MaxLoads
  /\ isLoadingRestrictions' = TRUE
  /\ loads' = Append(loads, NewLoad)
  /\ UNCHANGED <<probe, phase, now, lastAnalysisTime, mapVars, signalVars, analysisCache,
                 restrictedZonesData, supplyVars, timers, aiTasks, historyVars>>

\* loadGeoJSONData moves to the next path, or throws after the last one and
\* loadRestrictedZones installs the manual zones
AfterFail(l, zones) ==
  IF l.path < Len(possiblePaths)
  THEN [zones |-> zones, load |-> [l EXCEPT !.pc = "fetch", !.path = @ + 1, !.ds = "",
                                             !.batchIndex = 0],
        yield |-> FALSE, finished |-> FALSE]
  ELSE [zones |-> loadManualRestrictedZones,
        load |-> [l EXCEPT !.pc = "done", !.ds = "manual"],
        yield |-> FALSE, finished |-> TRUE]

\* one turn of the loop of processGeoJSONFeaturesOptimized
AfterBatch(l, zones, ds, batchIndex) ==
  LET features == Dataset(ds)
      totalBatches == (Len(features) + batchSize - 1) \div batchSize
      startIndex == batchIndex * batchSize
      endIndex == Min2(startIndex + batchSize, Len(features))
      r == processFeatureBatch(SubSeq(features, startIndex + 1, endIndex), startIndex)
  IN IF r.threw THEN AfterFail(l, zones)
     ELSE IF batchIndex < totalBatches - 1
       THEN [zones |-> zones \o r.zones,
             load |-> [l EXCEPT !.pc = "yield", !.ds = ds, !.batchIndex = batchIndex + 1],
             yield |-> TRUE, finished |-> FALSE]
     ELSE [zones |-> zones \o r.zones,
           load |-> [l EXCEPT !.pc = "done", !.ds = ds],
           yield |-> FALSE, finished |-> TRUE]

ApplyLoadStep(i, r, rest) ==
  /\ restrictedZonesData' = r.zones
  /\ loads' = [loads EXCEPT ![i] = r.load]
  /\ timers' = IF r.yield THEN Append(rest, Timer("yield", now, NoSite, 0, i)) ELSE rest
  /\ isLoadingRestrictions' = IF r.finished THEN FALSE ELSE isLoadingRestrictions

\* the response for the current path of a load arrives
FetchRespondWith(outcomes) ==
  \E i \in DOMAIN loads, outcome \in outcomes :
    /\ Started
    /\ loads[i].pc = "fetch"
    /\ LET l == [loads[i] EXCEPT !.tried =
                   Append(@, IF outcome \in DatasetNames THEN outcome ELSE "fail")]
       IN ApplyLoadStep(i,
            IF outcome \in DatasetNames
            THEN AfterBatch(l, restrictedZonesData, outcome, 0)
            ELSE AfterFail(l, restrictedZonesData),
            timers)
    /\ UNCHANGED <<probe, phase, now, lastAnalysisTime, mapVars, signalVars, analysisCache,
                   supplyVars, aiTasks, historyVars>>

FetchRespond == FetchRespondWith(FetchOutcomes)

\* the yield between two batches ends: the next batch is ingested
IngestNextBatch ==
  \E t \in DOMAIN timers :
    /\ timers[t].kind = "yield"
    /\ Runnable(t)
    /\ LET i == timers[t].load
       IN ApplyLoadStep(i,
            AfterBatch(loads[i], restrictedZonesData, loads[i].ds, loads[i].batchIndex),
            Without(timers, t))
    /\ UNCHANGED <<probe, phase, now, lastAnalysisTime, mapVars, signalVars, analysisCache,
                   supplyVars, aiTasks, historyVars>>

\* addZoneToMap closes an open ring of at least 4 positions in place
autoClose(zone) ==
  IF /\ Len(zone.coordinates) > 0
     /\ Len(zone.coordinates[1]) >= 4
     /\ zone.coordinates[1][1] # zone.coordinates[1][Len(zone.coordinates[1])]
  THEN [zone EXCEPT !.coordinates[1] = Append(@, zone.coordinates[1][1])]
  ELSE zone

\* the timer of initMap runs addRestrictedZones (every zone is in view at
\* the initial zoom)
addRestrictedZones ==
  \E t \in DOMAIN timers :
    /\ timers[t].kind = "render"
    /\ Runnable(t)
    /\ timers' = Without(timers, t)
    /\ restrictedZonesData' =
         IF map /\ Len(restrictedZonesData) > 0
         THEN [z \in DOMAIN restrictedZonesData |-> autoClose(restrictedZonesData[z])]
         ELSE restrictedZonesData
    /\ UNCHANGED <<probe, phase, now, lastAnalysisTime, mapVars, signalVars, analysisCache, loads,
                   isLoadingRestrictions, supplyVars, aiTasks, historyVars>>

\* ------------------------------------------------------------------------
\* Supply loading
\* ------------------------------------------------------------------------
\* the API answers the request of loadMaterials
MaterialsFromApi ==
  \E response \in ApiResponses :
    /\ Started
    /\ materialsRequest = "api"
    /\ materials' = transformApiResponse(response)
    /\ materialsRequest' = "done"
    /\ isLoading' = FALSE
    /\ UNCHANGED <<probe, phase, now, lastAnalysisTime, mapVars, signalVars, analysisCache, zoneVars,
                   timers, aiTasks, historyVars>>

\* the API request fails: loadMaterials asks the local service
MaterialsApiError ==
  /\ Started
  /\ materialsRequest = "api"
  /\ materialsRequest' = "service"
  /\ UNCHANGED <<probe, phase, now, lastAnalysisTime, mapVars, signalVars, analysisCache, zoneVars,
                 materials, isLoading, timers, aiTasks, historyVars>>

\* the local service answers with its list (used as is), or fails and the
\* list is emptied
MaterialsFromService ==
  \E response \in ServiceResponses :
    /\ materialsRequest = "service"
    /\ materials' = response
    /\ materialsRequest' = "done"
    /\ isLoading' = FALSE
    /\ UNCHANGED <<probe, phase, now, lastAnalysisTime, mapVars, signalVars, analysisCache, zoneVars,
                   timers, aiTasks, historyVars>>

\* ------------------------------------------------------------------------
\* Session controller
\* ------------------------------------------------------------------------
\* onMapClick(latlng)
onMapClickAt(sites, maxClicks) ==
  \E site \in sites :
    /\ phase = "ready"
    /\ Len(clickLog) < maxClicks
    /\ LET click == Len(clickLog) + 1
       IN /\ clickLog' = Append(clickLog, [site |-> site, time |-> now])
          /\ mapAltMarkers' = IF alternativeMarker # NULL
                              THEN mapAltMarkers \ {alternativeMarker.id} ELSE mapAltMarkers
          /\ alternativeMarker' = NULL
          /\ siteMarker' = site
          /\ selectedSite' = site
          /\ IF now - lastAnalysisTime > ANALYSIS_DEBOUNCE
             THEN /\ isAnalyzing' = TRUE
                  /\ timers' = Append(timers, Timer("defer", now, site, click, 0))
                  /\ lastAnalysisTime' = now
             ELSE /\ timers' = Append(timers, Timer("debounce", now + ANALYSIS_DEBOUNCE,
                                                    site, click, 0))
                  /\ UNCHANGED <<isAnalyzing, lastAnalysisTime>>
    /\ UNCHANGED <<probe, phase, now, map, analysisResult, aiRecommendation, aiError, isAIAnalyzing,
                   analysisCache, zoneVars, supplyVars, aiTasks, evaluated>>

onMapClick == onMapClickAt(Sites, MaxClicks)

\* the timer of onMapClick runs analyzeSite(latlng), which defers the
\* evaluation by one more timer
analyzeSite ==
  \E t \in DOMAIN timers :
    /\ timers[t].kind = "debounce"
    /\ Runnable(t)
    /\ isAnalyzing' = TRUE
    /\ timers' = Append(Without(timers, t),
                        Timer("defer", now, timers[t].site, timers[t].click, 0))
    /\ UNCHANGED <<probe, phase, now, lastAnalysisTime, mapVars, selectedSite, analysisResult,
                   aiRecommendation, aiError, isAIAnalyzing, analysisCache, zoneVars,
                   supplyVars, aiTasks, historyVars>>

\* some load is between two ingestion batches
Ingesting == \E i \in DOMAIN loads : loads[i].pc = "yield"

\* a deferred callback that ignores the cache: it evaluates and stores the
\* report on every call
evaluateSiteUncached(site, click) ==
  LET key == cacheKey(site)
      result == BaseReport(site, restrictedZonesData, materials, {})
  IN /\ analysisCache' = [k \in DOMAIN analysisCache \cup {key} |->
                            IF k = key THEN result ELSE analysisCache[k]]
     /\ analysisResult' = result
     /\ isAnalyzing' = FALSE
     /\ isAIAnalyzing' = TRUE
     /\ aiError' = NULL
     /\ aiTasks' = aiTasks \cup {[click |-> click, site |-> site, report |-> result]}
     /\ evaluated' = evaluated \cup {click}

\* the deferred callback of analyzeSite: cache lookup, evaluation on a miss,
\* publication, and generateAIRecommendations up to its await
evaluateSite(site, click) ==
  LET key == cacheKey(site)
      hit == key \in DOMAIN analysisCache
      result == IF hit THEN analysisCache[key]
                ELSE BaseReport(site, restrictedZonesData, materials, {})
  IN /\ analysisCache' = IF hit THEN analysisCache
                         ELSE [k \in DOMAIN analysisCache \cup {key} |->
                                 IF k = key THEN result ELSE analysisCache[k]]
     /\ analysisResult' = result
     /\ isAnalyzing' = FALSE
     /\ isAIAnalyzing' = TRUE
     /\ aiError' = NULL
     /\ aiTasks' = aiTasks \cup {[click |-> click, site |-> site, report |-> result]}
     /\ evaluated' = evaluated \cup {click}

runDeferredEvaluation ==
  \E t \in DOMAIN timers :
    /\ timers[t].kind = "defer"
    /\ Runnable(t)
    /\ timers' = Without(timers, t)
    /\ evaluateSite(timers[t].site, timers[t].click)
    /\ UNCHANGED <<probe, phase, now, lastAnalysisTime, mapVars, selectedSite, aiRecommendation,
                   zoneVars, supplyVars, clickLog>>

\* a delivery that withdraws the published report when the AI stage fails
deliverAIResultWithdrawing(task, outcome) ==
  LET context == [selectedSite |-> task.site,
                  nearestMaterials |-> task.report.nearestMaterials,
                  restrictions |-> task.report.restrictions]
      recommendation == serviceRecommendation(context, outcome)
      location == recommendation.alternativeLocation
      addsMarker == location # NULL /\ map /\ location.ok
      throws == location # NULL /\ map /\ ~location.ok
  IN /\ aiRecommendation' = recommendation
     /\ alternativeMarker' = IF addsMarker THEN [id |-> task.click] ELSE alternativeMarker
     /\ mapAltMarkers' = IF addsMarker THEN mapAltMarkers \cup {task.click} ELSE mapAltMarkers
     /\ aiError' = IF throws THEN [msg |-> "AI analysis temporarily unavailable"] ELSE aiError
     /\ isAIAnalyzing' = FALSE
     /\ analysisResult' = IF throws THEN NULL ELSE analysisResult
     /\ UNCHANGED analysisCache

\* the request of generateAIRecommendations settles and the method resumes
\* after its await
deliverAIResult(task, outcome) ==
  LET context == [selectedSite |-> task.site,
                  nearestMaterials |-> task.report.nearestMaterials,
                  restrictions |-> task.report.restrictions]
      recommendation == serviceRecommendation(context, outcome)
      location == recommendation.alternativeLocation
      addsMarker == location # NULL /\ map /\ location.ok
      throws == location # NULL /\ map /\ ~location.ok
  IN /\ aiRecommendation' = recommendation
     /\ alternativeMarker' = IF addsMarker THEN [id |-> task.click] ELSE alternativeMarker
     /\ mapAltMarkers' = IF addsMarker THEN mapAltMarkers \cup {task.click} ELSE mapAltMarkers
     /\ aiError' = IF throws THEN [msg |-> "AI analysis temporarily unavailable"] ELSE aiError
     /\ isAIAnalyzing' = FALSE
     /\ UNCHANGED <<analysisResult, analysisCache>>

generateAIRecommendationsWith(outcomes) ==
  \E task \in aiTasks, outcome \in outcomes :
    /\ aiTasks' = aiTasks \ {task}
    /\ deliverAIResult(task, outcome)
    /\ UNCHANGED <<probe, phase, now, lastAnalysisTime, map, siteMarker, selectedSite, isAnalyzing,
                   zoneVars, supplyVars, timers, clickLog, evaluated>>

generateAIRecommendations == generateAIRecommendationsWith(AIOutcomes)

\* clearSite()
clearSite ==
  /\ phase = "ready"
  /\ siteMarker' = NULL
  /\ mapAltMarkers' = IF alternativeMarker # NULL
                      THEN mapAltMarkers \ {alternativeMarker.id} ELSE mapAltMarkers
  /\ alternativeMarker' = NULL
  /\ selectedSite' = NULL
  /\ analysisResult' = NULL
  /\ aiRecommendation' = NULL
  /\ aiError' = NULL
  /\ UNCHANGED <<probe, phase, now, lastAnalysisTime, map, isAnalyzing, isAIAnalyzing, analysisCache,
                 zoneVars, supplyVars, timers, aiTasks, historyVars>>

\* ------------------------------------------------------------------------
\* Specifications
\* ------------------------------------------------------------------------
\* Spec: the session controller. The first candidate path serves the small
\* dataset and the supply API answers; selections, timers, AI results,
\* clearSite and teardown interleave freely.
SessionFetchRespond == FetchRespondWith({"small"})

Next ==
  \/ ngOnInit
  \/ ngAfterViewInit
  \/ ngOnDestroy
  \/ Tick
  \/ SessionFetchRespond
  \/ addRestrictedZones
  \/ MaterialsFromApi
  \/ onMapClick
  \/ analyzeSite
  \/ runDeferredEvaluation
  \/ generateAIRecommendations
  \/ clearSite

Spec == Init /\ [][Next]_vars

\* SpecLoad: zone loading. Every candidate path may answer in every way,
\* loadRestrictedZones may be called again, and one selection is evaluated
\* at any moment of the loading.
LoadOnMapClick == onMapClickAt({SiteA}, 1)


NextLoad ==
  \/ ngOnInit
  \/ ngAfterViewInit
  \/ loadRestrictedZones
  \/ FetchRespond
  \/ IngestNextBatch
  \/ LoadOnMapClick
  \/ runDeferredEvaluation

SpecLoad == Init /\ [][NextLoad]_vars

\* SpecLive: the session with the scheduling the runtime guarantees. A timer
\* callback that is due runs eventually (the event loop); the supply API and
\* the first candidate path answer; nothing makes the AI collaborator answer:
\* generateRecommendations posts its request without a timeout
\* (cohere-ai.service.ts:56-75), so its promise settles only when a response
\* or a transport error arrives.
LiveOnMapClick == onMapClickAt({SiteA, SiteC}, MaxClicks)

\* a deferred evaluation is due: runDeferredEvaluation is enabled
DeferDue == \E t \in DOMAIN timers : timers[t].kind = "defer" /\ Runnable(t)

NextLive ==
  \/ ngOnInit
  \/ ngAfterViewInit
  \/ Tick
  \/ SessionFetchRespond
  \/ MaterialsFromApi
  \/ LiveOnMapClick
  \/ analyzeSite
  \/ addRestrictedZones
  \/ runDeferredEvaluation
  \/ generateAIRecommendations

\* weak fairness of the three timer callbacks (that of runDeferredEvaluation
\* is written out with its enabling condition DeferDue)
SpecLive ==
  /\ Init /\ [][NextLive]_vars
  /\ WF_vars(analyzeSite \/ addRestrictedZones)
  /\ ([]<>(~DeferDue) \/ []<><<runDeferredEvaluation>>_vars)

\* SpecSelect: up to three selections at any of the clock's instants, with
\* the timers they start; the collaborator answers every request with a
\* plain recommendation.
MaxSelections == 3

SelectOnMapClick == onMapClickAt({SiteA, SiteC}, MaxSelections)

SelectAIAnswer == generateAIRecommendationsWith({"answer"})

NextSelect ==
  \/ ngOnInit
  \/ ngAfterViewInit
  \/ Tick
  \/ SessionFetchRespond
  \/ MaterialsFromApi
  \/ SelectOnMapClick
  \/ analyzeSite
  \/ addRestrictedZones
  \/ runDeferredEvaluation
  \/ SelectAIAnswer

SpecSelect == Init /\ [][NextSelect]_vars

\* ------------------------------------------------------------------------
\* SpecEngine: the engine functions on their own. One call of one function
\* is made on arguments drawn from the input sets below; probe records the
\* arguments and the result, the component is left as constructed.
\* ------------------------------------------------------------------------
MaxFeatures == 3

programVars == <<phase, now, lastAnalysisTime, mapVars, signalVars, isLoadingRestrictions,
                 isLoading, analysisCache, restrictedZonesData, materials, timers, aiTasks,
                 loads, materialsRequest, clickLog, evaluated>>

\* a right triangle: the corner at (36.40, -0.72), legs of 2000 units
ParkFeature ==
  Feat("Nairobi National Park", {}, "Polygon",
       << << <<3640000, -72000>>, <<3642000, -72000>>, <<3640000, -70000>>,
             <<3640000, -72000>> >> >>)

RoadFeature ==
  Feat("Thika Road", {}, "LineString", << <<3640000, -71000>>, <<3641000, -71000>> >>)

\* the same line when turf.buffer throws for it
RoadFallbackFeature == [RoadFeature EXCEPT !.lineBufferFails = TRUE]

GaugeFeature == Feat("Water Body Gauge", {}, "Point", <<3640500, -71500>>)

\* a named feature without geometry: feature.geometry.type throws in the try
GeometrylessFeature == Feat("Karura Forest", {}, "None", << >>)

\* a closed ring of 51 positions around a rectangle
Ring51 ==
  [i \in 1..51 |->
     IF i <= 25 THEN <<3640000 + 40 * (i - 1), -72000>>
     ELSE IF i <= 50 THEN <<3640000 + 40 * (50 - i), -71000>>
     ELSE <<3640000, -72000>>]

Ring51Feature == Feat("Karura Forest", {}, "Polygon", <<Ring51>>)

IngestFeatures ==
  {LakeFeature, ForestFeature, ParkFeature, RoadFeature, RoadFallbackFeature, GaugeFeature,
   GeometrylessFeature, Ring51Feature, NamelessFeature, NullFeature}

FeatureLists == UNION {[1..n -> IngestFeatures] : n \in 0..MaxFeatures}

\* processFeatureBatch(features, 0)
CallProcessFeatureBatch ==
  /\ probe = NoCall
  /\ \E features \in FeatureLists :
       probe' = [op |-> "processFeatureBatch", features |-> features,
                 result |-> processFeatureBatch(features, 0)]
  /\ UNCHANGED programVars

\* named features for classification: every name with every set of tags
ClassifyNames ==
  {"Lake Naivasha", "Nairobi National Park", "Jomo Kenyatta International Airport",
   "Nairobi-Mombasa Highway", "Wilson Airport Forest", "Athi River Road", "Thika Road",
   "Ngong Hills"}

ClassifyTags ==
  {<<"boundary", "national_park">>, <<"natural", "water">>, <<"highway", "primary">>,
   <<"aeroway", "aerodrome">>}

ClassifyFeatures ==
  {Feat(name, tags, "Polygon", LakeFeature.coords) :
     name \in ClassifyNames, tags \in SUBSET ClassifyTags}

\* determineZoneType(feature) and getBufferDistance of its result
CallDetermineZoneType ==
  /\ probe = NoCall
  /\ \E feature \in ClassifyFeatures :
       probe' = [op |-> "determineZoneType", feature |-> feature,
                 type |-> determineZoneType(feature),
                 bufferDistance |-> getBufferDistance(determineZoneType(feature))]
  /\ UNCHANGED programVars

\* loadManualRestrictedZones()
CallLoadManualRestrictedZones ==
  /\ probe = NoCall
  /\ probe' = [op |-> "loadManualRestrictedZones", zones |-> loadManualRestrictedZones]
  /\ UNCHANGED programVars

\* zone stores for the evaluator: what ingesting up to MaxZones features
\* leaves in an empty store, and the fallback list; each also with the
\* buffer distance of its first zone set to 0
MaxZones == 3

EvalFeatures == {LakeFeature, ForestFeature, ParkFeature, RoadFeature}

IngestedStores ==
  {processFeatureBatch(features, 0).zones :
     features \in UNION {[1..n -> EvalFeatures] : n \in 1..MaxZones}}

ZoneStores ==
  LET stores == IngestedStores \cup {loadManualRestrictedZones}
  IN stores \cup {[zones EXCEPT ![1].bufferDistance = 0] : zones \in stores}

\* sites 1500 m (1351 units) east, west, north and south of the square of
\* ForestFeature, and 1500 m west of the fallback zone 'Nairobi National Park'
SiteEast == Site(-71500, 3641951)

SiteWest == Site(-71500, 3639049)

SiteNorth == Site(-70049, 3640500)

SiteSouth == Site(-72951, 3640500)

SiteParkWest == Site(-130000, 3673649)

\* inside the bounding box of ParkFeature, 785 m outside its hypotenuse
SiteInBox == Site(-70500, 3641500)

\* inside the zone of RoadFeature, and inside the bounding box of
\* ParkFeature, 157 m outside its hypotenuse
SiteOnRoad == Site(-70900, 3641100)

EvalSites ==
  {SiteA, SiteC, SiteEast, SiteWest, SiteNorth, SiteSouth, SiteParkWest, SiteInBox, SiteOnRoad}

\* the zones for which turf.buffer throws: none, the first, or all
FailingSets(zones) == {{}, {zones[1].id}, {zones[i].id : i \in DOMAIN zones}}

\* checkRestrictionsOptimized(sitePoint) against a zone store
CallCheckRestrictionsOptimized ==
  /\ probe = NoCall
  /\ \E site \in EvalSites, zones \in ZoneStores :
       \E failing \in FailingSets(zones) :
         probe' = [op |-> "checkRestrictionsOptimized", site |-> site, zones |-> zones,
                   failing |-> failing,
                   findings |-> checkRestrictionsOptimized(site, zones, failing)]
  /\ UNCHANGED programVars

\* the buffer distances of getBufferDistance
BufferSteps == {200, 500, 1000, 2000, 3000}

\* checkRestrictionsOptimized for one site, before and after the buffer
\* distance of zone k of the store is raised
CallWithRaisedBuffer ==
  /\ probe = NoCall
  /\ \E site \in EvalSites, zones \in ZoneStores :
       \E failing \in FailingSets(zones), k \in DOMAIN zones, raised \in BufferSteps :
         /\ raised > zones[k].bufferDistance
         /\ probe' = [op |-> "raisedBuffer", site |-> site, zones |-> zones,
                      failing |-> failing, k |-> k, raised |-> raised,
                      before |-> checkRestrictionsOptimized(site, zones, failing),
                      after |-> checkRestrictionsOptimized(
                                  site, [zones EXCEPT ![k].bufferDistance = raised], failing)]
  /\ UNCHANGED programVars

\* supply sites around SiteA: 500 m, 1800 m (two of them, north and east),
\* 6000 m, about 40000 m, just inside the 50000 m radius, and 60000 m
MaxSupply == 7

Supply(id, name, lat, lng) ==
  [id |-> id, name |-> name, type |-> {"Sand"}, lat |-> lat, lng |-> lng]

SupplySites ==
  { Supply(1, "Quarry 500", SiteA.lat + 451, SiteA.lng),
    Supply(2, "Quarry 1800 N", SiteA.lat + 1622, SiteA.lng),
    Supply(3, "Quarry 1800 E", SiteA.lat, SiteA.lng + 1622),
    Supply(4, "Quarry 6000", SiteA.lat - 5406, SiteA.lng),
    Supply(5, "Quarry 40000", SiteA.lat, SiteA.lng - 36036),
    Supply(6, "Quarry 50000", SiteA.lat + 45045, SiteA.lng),
    Supply(7, "Quarry 60000", SiteA.lat + 54055, SiteA.lng) }

\* the lists this.materials() can hold: every order of every choice of
\* distinct supply sites
RECURSIVE Orders(_)
Orders(S) ==
  IF S = {} THEN {<< >>}
  ELSE UNION { { <<x>> \o rest : rest \in Orders(S \ {x}) } : x \in S }

SupplyLists ==
  UNION { Orders(S) : S \in {T \in SUBSET SupplySites : Cardinality(T) <= MaxSupply} }

SupplyQuerySites == {SiteA, SiteC}

CallFindNearestMaterialsOptimized ==
  /\ probe = NoCall
  /\ \E site \in SupplyQuerySites, mats \in SupplyLists :
       probe' = [op |-> "findNearestMaterialsOptimized", site |-> site, mats |-> mats,
                 result |-> findNearestMaterialsOptimized(site, mats)]
  /\ UNCHANGED programVars

\* generateRecommendations on the findings and proximities that analyzeSite
\* computes for a site, without supply sites and with one nearby
RecommendationSupplies == {<< >>, <<Supply(1, "Quarry 500", SiteA.lat + 451, SiteA.lng)>>}

CallGenerateRecommendations ==
  /\ probe = NoCall
  /\ \E site \in EvalSites, zones \in ZoneStores, mats \in RecommendationSupplies :
       LET restrictions == checkRestrictionsOptimized(site, zones, {})
           nearestMaterials == findNearestMaterialsOptimized(site, mats)
       IN probe' = [op |-> "generateRecommendations", site |-> site, zones |-> zones,
                    restrictions |-> restrictions, nearestMaterials |-> nearestMaterials,
                    recommendations |-> generateRecommendations(restrictions, nearestMaterials)]
  /\ UNCHANGED programVars

\* CohereAIService.generateRecommendations on the context that
\* generateAIRecommendations builds from a report
FallbackSupplies ==
  {<< >>, <<Supply(1, "Quarry 500", SiteA.lat + 451, SiteA.lng)>>,
   <<Supply(4, "Quarry 6000", SiteA.lat - 5406, SiteA.lng)>>}

CallCohereGenerateRecommendations ==
  /\ probe = NoCall
  /\ \E site \in EvalSites, zones \in ZoneStores, mats \in FallbackSupplies,
        response \in AIResponses :
       LET restrictions == checkRestrictionsOptimized(site, zones, {})
           nearestMaterials == findNearestMaterialsOptimized(site, mats)
           context == [selectedSite |-> site, nearestMaterials |-> nearestMaterials,
                       restrictions |-> restrictions]
       IN probe' = [op |-> "cohereGenerateRecommendations", site |-> site, zones |-> zones,
                    restrictions |-> restrictions, nearestMaterials |-> nearestMaterials,
                    response |-> response,
                    result |-> cohereGenerateRecommendations(context, response)]
  /\ UNCHANGED programVars

\* records of the supply API: a good one near Nairobi, one whose latitude is
\* not a number, one without longitude (Number(undefined) is NaN), and one
\* whose latitude lies outside [-90, 90]
MaxRecords == 3

ApiItem(id, latitude, longitude) ==
  [id |-> id, material |-> "Sand", types |-> {"Sand"},
   latitude |-> latitude, longitude |-> longitude]

ApiItems ==
  { ApiItem("good", Num(-129000), Num(3674000)),
    ApiItem("nanLat", NaN, Num(3674000)),
    ApiItem("noLng", Num(-129000), NaN),
    ApiItem("lat95", Num(9500000), Num(3674000)) }

ApiLists == UNION {[1..n -> ApiItems] : n \in 0..MaxRecords}

\* transformApiResponse on a response, and the proximities of a site against
\* the store it yields
CallTransformApiResponse ==
  /\ probe = NoCall
  /\ \E apiData \in ApiLists, site \in {SiteA, SiteParkWest} :
       LET store == transformApiResponse(apiData)
       IN probe' = [op |-> "transformApiResponse", apiData |-> apiData, site |-> site,
                    materials |-> store,
                    nearest |-> findNearestMaterialsOptimized(site, store)]
  /\ UNCHANGED programVars

NextEngine ==
  \/ CallTransformApiResponse
  \/ CallCohereGenerateRecommendations
  \/ CallGenerateRecommendations
  \/ CallFindNearestMaterialsOptimized
  \/ CallProcessFeatureBatch
  \/ CallDetermineZoneType
  \/ CallLoadManualRestrictedZones
  \/ CallCheckRestrictionsOptimized
  \/ CallWithRaisedBuffer

SpecEngine == Init /\ [][NextEngine]_vars

\* ------------------------------------------------------------------
\* Properties of the site-selection session (Spec)
\* ------------------------------------------------------------------

\* the selection numbered c has been followed by another selection less
\* than ANALYSIS_DEBOUNCE ms later, i.e. inside the same debounce window
FollowedInWindow(c) ==
  \E d \in DOMAIN clickLog :
    d > c /\ clickLog[d].time - clickLog[c].time < ANALYSIS_DEBOUNCE

\* the AI tasks that settle in a step, and those that start in it
Delivered == aiTasks \ aiTasks'
StartedTasks == aiTasks' \ aiTasks

\* C1: when several selections arrive inside one 500 ms debounce window,
\* only the last selection of that window is evaluated: a selection that was
\* followed by another one inside the window is never evaluated.
C1_OnlyLastOfWindowEvaluated ==
  \A c \in evaluated : ~FollowedInWindow(c)

\* C2: the result of an AI task whose selection has been superseded by a
\* newer selection is discarded: its delivery changes neither
\* aiRecommendation, nor aiError, nor the alternative-location markers.
C2_SupersededAIResultDiscarded ==
  [][\A task \in Delivered :
       task.click < Len(clickLog)
         => /\ aiRecommendation' = aiRecommendation
            /\ aiError' = aiError
            /\ mapAltMarkers' = mapAltMarkers
            /\ alternativeMarker' = alternativeMarker]_vars

\* C3: every new selection clears the AI result and the AI error of the
\* previous selection at the selection event itself.
C3_SelectionClearsAIState ==
  [][Len(clickLog') > Len(clickLog)
       => aiRecommendation' = NULL /\ aiError' = NULL]_vars

\* C4: on a cache hit for the selection's 4-decimal key, analyzeSite
\* publishes exactly the cached report and computes nothing anew: the
\* published report and the report handed to the AI stage are the cached
\* one, whatever the zone and supply stores hold by now, and the cache is
\* left as it was.
C4_CacheHitPublishesCached ==
  [][\A task \in StartedTasks :
       cacheKey(task.site) \in DOMAIN analysisCache
         => /\ analysisResult' = analysisCache[cacheKey(task.site)]
            /\ task.report = analysisCache[cacheKey(task.site)]
            /\ analysisCache' = analysisCache]_vars

\* two different sites of one cache cell have both been evaluated with the
\* cache never cleared in between, so the later evaluation was a hit; the
\* stores changed after the entry was made, so the published report is the
\* cached one and not what an evaluation would produce now
C4_HitServedFromCache ==
  /\ phase = "ready"
  /\ evaluated = {1, 2}
  /\ clickLog[1].site # clickLog[2].site
  /\ cacheKey(clickLog[1].site) = cacheKey(clickLog[2].site)
  /\ selectedSite # NULL
  /\ analysisResult # NULL
  /\ analysisResult = analysisCache[cacheKey(selectedSite)]
  /\ analysisResult # BaseReport(selectedSite, restrictedZonesData, materials, {})

\* C5: the AI stage never blocks or invalidates the base report: the report
\* is published in the step that starts the AI task, and the settling of an
\* AI task, successful or not, leaves analysisResult and the cache as they
\* were.
C5_AIStageKeepsBaseReport ==
  [][/\ \A task \in StartedTasks : analysisResult' = task.report
     /\ \A task \in Delivered :
          analysisResult' = analysisResult /\ analysisCache' = analysisCache]_vars

\* an AI task has settled and failed (aiError is set) while the base report
\* of the selection is still published and cached
C5_ReportSurvivesAIFailure ==
  /\ aiTasks = {}
  /\ aiError # NULL
  /\ aiRecommendation # NULL
  /\ selectedSite # NULL
  /\ analysisResult # NULL
  /\ cacheKey(selectedSite) \in DOMAIN analysisCache
  /\ analysisResult = analysisCache[cacheKey(selectedSite)]

\* C6: teardown clears the cache and the published selection state: once
\* the component is destroyed, analysisCache is empty and selectedSite,
\* analysisResult, aiRecommendation and aiError hold nothing.
C6_TeardownClearsState ==
  phase = "destroyed"
    => /\ analysisCache = EmptyCache
       /\ selectedSite = NULL
       /\ analysisResult = NULL
       /\ aiRecommendation = NULL
       /\ aiError = NULL

\* ------------------------------------------------------------------
\* Properties of zone loading (SpecLoad)
\* ------------------------------------------------------------------

\* the first path of a load that answered with a dataset, 0 if none did
FirstGood(tried) ==
  IF \E k \in DOMAIN tried : tried[k] # "fail"
  THEN CHOOSE k \in DOMAIN tried :
         tried[k] # "fail" /\ \A j \in 1..(k - 1) : tried[j] = "fail"
  ELSE 0

\* the zones one complete ingestion of a collection produces
RECURSIVE IngestFrom(_, _)
IngestFrom(ds, b) ==
  LET features == Dataset(ds)
      startIndex == b * batchSize
      endIndex == Min2(startIndex + batchSize, Len(features))
  IN IF startIndex >= Len(features) THEN << >>
     ELSE processFeatureBatch(SubSeq(features, startIndex + 1, endIndex), startIndex).zones
            \o IngestFrom(ds, b + 1)

DatasetZones(ds) ==
  IF ds = "manual" THEN loadManualRestrictedZones ELSE IngestFrom(ds, 0)

\* C7: the engine is never left with zero zones: once a call of
\* loadRestrictedZones has completed, restrictedZonesData holds at least one
\* zone, whatever the candidate sources answered.
C7_NeverZeroZones ==
  \A i \in DOMAIN loads :
    loads[i].pc = "done" => Len(restrictedZonesData) >= 1

\* C8: candidate sources are tried in list order; the first one that
\* answers OK with at least one feature is the one ingested and no later
\* source is tried; the fallback list is installed if and only if every
\* candidate source failed.
C8_FirstGoodSourceWins ==
  \A i \in DOMAIN loads :
    LET l == loads[i]
        g == FirstGood(l.tried)
    IN /\ Len(l.tried) = (IF l.pc = "fetch" THEN l.path - 1 ELSE l.path)
       /\ g # 0 => Len(l.tried) = g /\ l.pc # "fetch" /\ l.ds = l.tried[g]
       /\ l.ds = "manual" <=> (l.pc = "done" /\ g = 0 /\ Len(l.tried) = Len(possiblePaths))

\* C9: the zone store is replaced wholesale on reload: once a second call of
\* loadRestrictedZones has completed and no load is running, the store holds
\* exactly the zones of one loaded collection (or exactly the fallback list)
\* and nothing left over from another load.
C9_ReloadReplacesStore ==
  (Len(loads) >= 2 /\ \A i \in DOMAIN loads : loads[i].pc = "done")
    => \E i \in DOMAIN loads : restrictedZonesData = DatasetZones(loads[i].ds)

\* C10: no site evaluation runs against a partially ingested zone store: no
\* evaluation happens while a load is at the yield between two batches.
C10_NoEvaluationWhileIngesting ==
  [][StartedTasks # {} => ~Ingesting]_vars

\* ------------------------------------------------------------------
\* Properties of the engine functions (SpecEngine)
\* ------------------------------------------------------------------

\* the zones of the features of a list that yield a zone when each is
\* processed on its own, in input order
RECURSIVE ZonesOfEach(_, _)
ZonesOfEach(features, i) ==
  IF i > Len(features) THEN << >>
  ELSE LET r == processFeature(features[i], i - 1)
       IN (IF r.kind = "zone" THEN <<r.zone>> ELSE << >>) \o ZonesOfEach(features, i + 1)

\* C11: a feature without name, or whose processing throws, is skipped and
\* never aborts ingestion: processFeatureBatch returns, and its result holds
\* the zone of every other feature of the batch, in input order.
C11_FeatureFailureNeverAborts ==
  probe.op = "processFeatureBatch"
    => /\ ~probe.result.threw
       /\ probe.result.zones = ZonesOfEach(probe.features, 1)

\* the types whose name rule or tag rule a feature matches
MatchedTypes(f) ==
  (IF \/ NameIncludes(f, "airport") \/ NameIncludes(f, "aerodrome")
      \/ PropsInclude(f, "aeroway") \/ Prop(f, "aeroway") # ""
   THEN {"Airport"} ELSE {})
  \cup
  (IF \/ \E kw \in {"national park", "reserve", "protected", "conservancy", "wildlife",
                    "forest"} : NameIncludes(f, kw)
      \/ Prop(f, "boundary") \in {"national_park", "protected_area"}
   THEN {"Protected Area"} ELSE {})
  \cup
  (IF \/ \E kw \in {"lake", "river", "water", "reservoir", "wetland", "swamp", "dam",
                    "stream", "creek", "pond", "lagoon"} : NameIncludes(f, kw)
      \/ PropsInclude(f, "natural=water") \/ Prop(f, "natural") = "water"
   THEN {"Water Body"} ELSE {})
  \cup
  (IF \/ \E kw \in {"highway", "road", "street", "avenue", "railway", "railroad",
                    "rail track", "motorway", "expressway", "freeway"} : NameIncludes(f, kw)
      \/ PropsInclude(f, "highway") \/ PropsInclude(f, "railway")
      \/ Prop(f, "highway") # "" \/ Prop(f, "railway") # ""
   THEN {"Transportation Corridor"} ELSE {})

TypePriority == <<"Airport", "Protected Area", "Water Body", "Transportation Corridor">>

HighestPriority(types) ==
  IF types = {} THEN "Restricted Area"
  ELSE TypePriority[CHOOSE i \in DOMAIN TypePriority :
                      /\ TypePriority[i] \in types
                      /\ \A j \in 1..(i - 1) : TypePriority[j] \notin types]

\* C12: classification follows the priority Airport > Protected Area >
\* Water Body > Transportation Corridor > other: determineZoneType returns
\* the highest-priority type among the types whose name or tag rule the
\* feature matches, and the other type only when it matches none.
C12_ClassificationFollowsPriority ==
  probe.op = "determineZoneType"
    => probe.type = HighestPriority(MatchedTypes(probe.feature))

\* the zones a call has created for the zone store
CreatedZones ==
  IF probe.op = "processFeatureBatch" THEN probe.result.zones
  ELSE IF probe.op = "loadManualRestrictedZones" THEN probe.zones
  ELSE << >>

\* C13: every zone created for the zone store has a closed body ring (first
\* vertex equal to last vertex), whichever way it was created: polygon kept
\* as is, ring over 50 vertices simplified, line or point conversion,
\* built-in fallback zone.
C13_BodyRingsClosed ==
  \A i \in DOMAIN CreatedZones :
    LET ring == CreatedZones[i].coordinates[1]
    IN ring[1] = ring[Len(ring)]

\* ------------------------------------------------------------------
\* Properties of the zone store
\* ------------------------------------------------------------------

\* C14: the bounding box always matches the body ring: every zone of the
\* zone store, ingested or fallback, carries bounds equal to
\* [min lng, min lat, max lng, max lat] over the vertices of its body ring.
C14_BoundsMatchBodyRing ==
  \A i \in DOMAIN restrictedZonesData :
    restrictedZonesData[i].bounds = calculateBounds(restrictedZonesData[i].coordinates[1])

\* the point lies outside the body of a zone, within meters of its outline
OutsideWithin(p, zone, meters) ==
  LET ring == zone.coordinates[1]
  IN /\ ~booleanPointInPolygon(p, ring)
     /\ \E i \in 1..(Len(ring) - 1) :
          NearSegment(p, ring[i], ring[i + 1], MetersToUnits(meters))

\* the point lies outside the body, 1500 m from its outline (to within 10 m)
At1500m(p, zone) == OutsideWithin(p, zone, 1500) /\ ~OutsideWithin(p, zone, 1490)

ProbePoint == <<probe.site.lng, probe.site.lat>>

HasFinding(finding) == \E j \in DOMAIN probe.findings : probe.findings[j] = finding

\* C15: Scenario C: for a Protected Area zone with buffer distance 2000 m, a
\* site outside the zone body and 1500 m from its boundary yields the
\* within-buffer finding for that zone, on whichever side of the boundary
\* the site lies.
C15_ScenarioCBuffered ==
  probe.op = "checkRestrictionsOptimized"
    => \A i \in DOMAIN probe.zones :
         LET zone == probe.zones[i]
         IN (/\ zone.type = "Protected Area"
             /\ zone.bufferDistance = 2000
             /\ zone.id \notin probe.failing
             /\ At1500m(ProbePoint, zone))
              => HasFinding(BufferFinding(zone))

\* the bounding-box test of the evaluator lets the point through
PassesBounds(p, zone) == zone.bounds = << >> \/ ~OutsideBounds(p, zone.bounds)

\* C16: for a zone whose bufferDistance is 0 the evaluator never emits a
\* within-buffer finding, for any site.
C16_NoBufferedForZeroBuffer ==
  probe.op = "checkRestrictionsOptimized"
    => \A i \in DOMAIN probe.zones :
         probe.zones[i].bufferDistance = 0 => ~HasFinding(BufferFinding(probe.zones[i]))

\* the first zone has buffer distance 0, its buffer computation succeeds and
\* the site passed its bounding-box test and lies outside the body within
\* 1000 m of the outline: any positive buffer of that size would have
\* reported it
C16_ZeroBufferNearOutline ==
  /\ probe.op = "checkRestrictionsOptimized"
  /\ probe.zones[1].bufferDistance = 0
  /\ probe.zones[1].id \notin probe.failing
  /\ PassesBounds(ProbePoint, probe.zones[1])
  /\ OutsideWithin(ProbePoint, probe.zones[1], 1000)
  /\ ~HasFinding(BufferFinding(probe.zones[1]))

In(findings, finding) == \E j \in DOMAIN findings : findings[j] = finding

\* C17: for a fixed site and zone set, raising one zone's buffer distance
\* only adds findings: every inside finding present before is present after,
\* a within-buffer finding of the raised zone stays one (for the new
\* distance), no finding of another zone appears or disappears, and the
\* list does not get shorter. (Findings are texts: a finding is attributed
\* to a zone only where no other zone of the store yields the same text.)
C17_RaisingBufferOnlyAdds ==
  probe.op = "raisedBuffer"
    => LET zones == probe.zones
           raisedZone == [zones[probe.k] EXCEPT !.bufferDistance = probe.raised]
       IN /\ \A j \in DOMAIN probe.before :
               probe.before[j].sev = "inside" => In(probe.after, probe.before[j])
          /\ (/\ In(probe.before, BufferFinding(zones[probe.k]))
              /\ \A i \in DOMAIN zones :
                   i # probe.k => BufferFinding(zones[i]) # BufferFinding(zones[probe.k]))
               => In(probe.after, BufferFinding(raisedZone))
          /\ \A i \in DOMAIN zones :
               (/\ i # probe.k
                /\ BufferFinding(zones[i]) # BufferFinding(raisedZone)
                /\ BufferFinding(zones[i]) # BufferFinding(zones[probe.k]))
                 => /\ In(probe.before, InsideFinding(zones[i]))
                         <=> In(probe.after, InsideFinding(zones[i]))
                    /\ In(probe.before, BufferFinding(zones[i]))
                         <=> In(probe.after, BufferFinding(zones[i]))
          /\ Len(probe.after) >= Len(probe.before)

\* the site is inside one zone and the raise brings it into the buffer of
\* another: the inside finding is kept and a finding is added
C17_RaiseAddsFinding ==
  /\ probe.op = "raisedBuffer"
  /\ \E j \in DOMAIN probe.before : probe.before[j].sev = "inside"
  /\ Len(probe.after) = Len(probe.before) + 1

\* the findings from position f on are texts of zones at strictly increasing
\* positions from z on (each finding is matched to the earliest such zone)
RECURSIVE EmbedsFrom(_, _, _, _)
EmbedsFrom(findings, zones, f, z) ==
  IF f > Len(findings) THEN TRUE
  ELSE IF z > Len(zones) THEN FALSE
  ELSE IF findings[f] \in {InsideFinding(zones[z]), BufferFinding(zones[z])}
    THEN EmbedsFrom(findings, zones, f + 1, z + 1)
  ELSE EmbedsFrom(findings, zones, f, z + 1)

\* C18: in the list returned by checkRestrictionsOptimized the zones named by
\* successive findings have strictly increasing positions in the zone store,
\* so a zone contributes at most one finding (inside or within-buffer, never
\* both).
C18_FindingsFollowStoreOrder ==
  probe.op = "checkRestrictionsOptimized"
    => EmbedsFrom(probe.findings, probe.zones, 1, 1)

\* a store of three zones whose first and last contribute one finding each,
\* one inside and one within-buffer, while the zone between contributes none
C18_TwoKindsAcrossSkippedZone ==
  /\ probe.op = "checkRestrictionsOptimized"
  /\ Len(probe.zones) = 3
  /\ Len(probe.findings) = 2
  /\ probe.findings[1] \in {InsideFinding(probe.zones[1]), BufferFinding(probe.zones[1])}
  /\ probe.findings[2] \in {InsideFinding(probe.zones[3]), BufferFinding(probe.zones[3])}
  /\ probe.findings[1].sev # probe.findings[2].sev
  /\ probe.zones[1].name # probe.zones[3].name
  /\ probe.zones[2].name \notin {probe.zones[1].name, probe.zones[3].name}

\* what zone i contributes when no buffer computation fails
Unfailing(site, zones, i) == checkRestrictionsOptimized(site, <<zones[i]>>, {})

\* the findings expected from zone i on: a zone whose buffer computation
\* fails keeps its inside finding and loses its within-buffer finding, any
\* other zone contributes what it contributes without failures
RECURSIVE ExpectedFrom(_, _, _, _)
ExpectedFrom(site, zones, failing, i) ==
  IF i > Len(zones) THEN << >>
  ELSE LET alone == Unfailing(site, zones, i)
           kept == IF zones[i].id \in failing
                     THEN FilterIdx(alone, {j \in DOMAIN alone : alone[j].sev = "inside"}, 1)
                   ELSE alone
       IN kept \o ExpectedFrom(site, zones, failing, i + 1)

\* C19: when the buffer computation fails for a zone, the body test of that
\* zone still runs and emits its inside finding, only the buffer test is
\* omitted for it, and every other zone is evaluated as without the failure;
\* the evaluator returns its list.
C19_BufferFailureOnlyDropsBuffer ==
  probe.op = "checkRestrictionsOptimized"
    => /\ probe.findings = ExpectedFrom(probe.site, probe.zones, probe.failing, 1)
       /\ \A i \in DOMAIN probe.zones :
            (/\ probe.zones[i].id \in probe.failing
             /\ PassesBounds(<<probe.site.lng, probe.site.lat>>, probe.zones[i])
             /\ booleanPointInPolygon(<<probe.site.lng, probe.site.lat>>,
                                      probe.zones[i].coordinates[1]))
              => HasFinding(InsideFinding(probe.zones[i]))

\* the buffer computation fails for the first zone only, whose buffer the
\* site lies in; its within-buffer finding is missing and a later zone still
\* contributes a finding
C19_FailureSkipsOneBuffer ==
  /\ probe.op = "checkRestrictionsOptimized"
  /\ Len(probe.zones) >= 2
  /\ probe.failing = {probe.zones[1].id}
  /\ Unfailing(probe.site, probe.zones, 1) = <<BufferFinding(probe.zones[1])>>
  /\ ~HasFinding(BufferFinding(probe.zones[1]))
  /\ probe.findings # << >>

\* ------------------------------------------------------------------------
\* Properties of the nearest-supply finder
\* ------------------------------------------------------------------------
\* the supply site is part of the result
Included(material) == \E r \in DOMAIN probe.result : probe.result[r].material = material

\* C20: the nearest-supply result has at most 5 entries, each the distance
\* record of a supply site of the list, none with distance above 50 000 m,
\* and no supply site within 50 000 m that is left out is strictly closer
\* than one that is included.
C20_NearestWithinRadius ==
  probe.op = "findNearestMaterialsOptimized"
    => /\ Len(probe.result) <= 5
       /\ \A r \in DOMAIN probe.result :
            /\ probe.result[r].distance <= maxDistance
            /\ \E i \in DOMAIN probe.mats :
                 probe.result[r] = Proximity(probe.site, probe.mats[i])
       /\ \A i \in DOMAIN probe.mats :
            (/\ Proximity(probe.site, probe.mats[i]).distance <= maxDistance
             /\ ~Included(probe.mats[i]))
              => \A r \in DOMAIN probe.result :
                   ~(Proximity(probe.site, probe.mats[i]).distance < probe.result[r].distance)

\* a list of seven supply sites, six of them within the radius, that starts
\* with the farthest of those six: the result holds five, and both a site
\* beyond the radius and a site within it are left out
C20_TruncatedToFive ==
  /\ probe.op = "findNearestMaterialsOptimized"
  /\ Len(probe.mats) = MaxSupply
  /\ Len(probe.result) = 5
  /\ ~Included(probe.mats[1])
  /\ Proximity(probe.site, probe.mats[1]).distance <= maxDistance
  /\ \E i \in DOMAIN probe.mats :
       Proximity(probe.site, probe.mats[i]).distance > maxDistance

\* C21: the proximities of a report are strictly sorted ascending by
\* distance: each entry's distance is strictly less than the next entry's.
C21_ProximitiesStrictlyAscending ==
  probe.op = "findNearestMaterialsOptimized"
    => \A r \in 1..(Len(probe.result) - 1) :
         probe.result[r].distance < probe.result[r + 1].distance

\* ------------------------------------------------------------------------
\* Properties of the recommendation synthesizer
\* ------------------------------------------------------------------------
\* the types of the zones that the findings of the call are about
TypesInFindings ==
  {probe.zones[i].type : i \in {k \in DOMAIN probe.zones :
     \E j \in DOMAIN probe.restrictions :
       probe.restrictions[j] \in {InsideFinding(probe.zones[k]), BufferFinding(probe.zones[k])}}}

\* the fixed pair of a zone type: its compliance note and its requirement
CompliancePair(type) ==
  CASE type = "Water Body" -> <<Msg("water-body-nearby"), Msg("required-flood-assessment")>>
    [] type = "Protected Area" -> <<Msg("near-protected-area"), Msg("required-wildlife-assessment")>>
    [] type = "Airport" -> <<Msg("near-airport"), Msg("required-aviation-clearance")>>
    [] type = "Transportation Corridor" ->
         <<Msg("near-transport-corridor"), Msg("required-traffic-management")>>

PairedTypes == {"Water Body", "Protected Area", "Airport", "Transportation Corridor"}

Occurrences(recommendations, m) ==
  Cardinality({i \in DOMAIN recommendations : recommendations[i] = m})

\* C22: for each zone type present in the findings, inside or within
\* buffer, generateRecommendations appends exactly one compliance-requirement
\* pair of that type, and it appends no pair of a type absent from the
\* findings.
C22_OnePairPerTypePresent ==
  probe.op = "generateRecommendations"
    => \A type \in PairedTypes :
         LET pair == CompliancePair(type)
             n == IF type \in TypesInFindings THEN 1 ELSE 0
         IN /\ Occurrences(probe.recommendations, pair[1]) = n
            /\ Occurrences(probe.recommendations, pair[2]) = n

\* ------------------------------------------------------------------------
\* Properties of the AI augmentation collaborator
\* ------------------------------------------------------------------------
\* the risk level the findings and the supply proximity determine
ExpectedRisk ==
  IF "Protected Area" \in TypesInFindings THEN "high"
  ELSE IF "Water Body" \in TypesInFindings THEN "medium"
  ELSE IF Len(probe.nearestMaterials) > 0 /\ probe.nearestMaterials[1].distance < 5000
    THEN "low"
  ELSE "medium"

\* C23: when the collaborator's response is missing, malformed or fails,
\* generateRecommendations returns a recommendation of the usual structure
\* whose riskLevel is high if a Protected Area finding is present, otherwise
\* medium if a Water Body finding is present, otherwise low or medium by
\* supply proximity alone.
C23_FallbackRiskFromFindings ==
  (probe.op = "cohereGenerateRecommendations" /\ probe.response.kind # "json")
    => /\ DOMAIN probe.result = {"origin", "context", "recommendation", "riskLevel",
                                  "alternativeLocation"}
       /\ probe.result.riskLevel = ExpectedRisk

\* ------------------------------------------------------------------------
\* Properties of the AI stage (SpecLive)
\* ------------------------------------------------------------------------
\* C24: for every selection whose base report is produced, the AI stage
\* eventually finishes: its task settles with the collaborator's or the
\* fallback recommendation and isAIAnalyzing returns to false, also when the
\* collaborator never responds.
C24_AIStageEventuallyFinishes ==
  (aiTasks # {}) ~> (aiTasks = {} /\ ~isAIAnalyzing /\ aiRecommendation # NULL)

\* ------------------------------------------------------------------------
\* Properties of supply loading
\* ------------------------------------------------------------------------
\* a coordinate of the record is missing, not a number or out of range
BadCoordinates(item) ==
  \/ ~item.latitude.ok
  \/ ~item.longitude.ok
  \/ Abs(item.latitude.v) > 9000000
  \/ Abs(item.longitude.v) > 18000000

\* C25: supply records with missing, NaN or out-of-range coordinates are
\* excluded from the supply store and appear in no proximity result.
C25_BadCoordinatesExcluded ==
  probe.op = "transformApiResponse"
    => \A i \in DOMAIN probe.apiData :
         BadCoordinates(probe.apiData[i])
           => /\ \A m \in DOMAIN probe.materials :
                   probe.materials[m].id # probe.apiData[i].id
              /\ \A r \in DOMAIN probe.nearest :
                   probe.nearest[r].material.id # probe.apiData[i].id

\* ------------------------------------------------------------------------
\* Properties of successive selections (SpecSelect)
\* ------------------------------------------------------------------------
\* no debounce timer and no deferred evaluation is pending
SelectionsSettled ==
  \A t \in DOMAIN timers : timers[t].kind \notin {"debounce", "defer"}

\* C26: once all pending debounce timers and deferred evaluations have run,
\* the published analysisResult is the report of the most recently selected
\* site, the one held in selectedSite (the report stored for its cache cell).
C26_SettledReportIsOfLastSelection ==
  (SelectionsSettled /\ clickLog # << >> /\ selectedSite # NULL)
    => /\ cacheKey(selectedSite) \in DOMAIN analysisCache
       /\ analysisResult = analysisCache[cacheKey(selectedSite)]

\* ------------------------------------------------------------------------
\* Properties of clearSite and of the AI stage (Spec)
\* ------------------------------------------------------------------------
\* the state clearSite leaves: a site was selected before and the four
\* published signals hold nothing (a selection sets selectedSite, and only
\* clearSite resets it)
Cleared ==
  /\ clickLog # << >>
  /\ selectedSite = NULL
  /\ analysisResult = NULL
  /\ aiRecommendation = NULL
  /\ aiError = NULL

\* C27: after clearSite, selectedSite, analysisResult, aiRecommendation and
\* aiError stay null until the next selection: no step other than a selection
\* changes any of them.
C27_ClearedUntilNextSelection ==
  [][(Cleared /\ clickLog' = clickLog)
       => /\ selectedSite' = NULL
          /\ analysisResult' = NULL
          /\ aiRecommendation' = NULL
          /\ aiError' = NULL]_vars

\* what a fresh evaluation of a site of the cell produces against the
\* current zone store and supply store
FreshReports(key) ==
  {BaseReport(site, restrictedZonesData, materials, {}) :
     site \in {s \in Sites : cacheKey(s) = key}}

\* C28: the cached report returned for a cell equals what a fresh evaluation
\* of that cell against the current zone store and supply store produces:
\* on a cache hit the report published and handed on is one that BaseReport
\* yields now for a site of the cell.
C28_CacheHitEqualsFreshEvaluation ==
  [][\A task \in StartedTasks :
       cacheKey(task.site) \in DOMAIN analysisCache
         => /\ analysisResult' \in FreshReports(cacheKey(task.site))
            /\ task.report \in FreshReports(cacheKey(task.site))]_vars

\* C29: isAIAnalyzing is true whenever at least one AI task is in flight:
\* the completion of one task never sets the flag to false while another
\* task is still outstanding.
C29_AnalyzingWhileTaskInFlight ==
  aiTasks # {} => isAIAnalyzing

\* C30: at most one AI alternative-location marker is on the map at any
\* time, and alternativeMarker references it, so that clearAlternativeMarker
\* removes every alternative marker.
C30_OneReferencedAlternativeMarker ==
  /\ Cardinality(mapAltMarkers) <= 1
  /\ mapAltMarkers # {}
       => alternativeMarker # NULL /\ mapAltMarkers = {alternativeMarker.id}

====
